---- MODULE Spec2Model ----
(***************************************************************************)
(* ElTable: the evaluation engine of a minimal spreadsheet (Tokenizer of   *)
(* src/cpp/eltab.h and src/cpp/eltab.cpp).  The recursive descent          *)
(* run -> parse_expr -> parse_reference -> parse_expr ... is modelled as   *)
(* an explicit call stack; every step of the machine is one stretch of     *)
(* straight-line code between two calls, returns or throws.                *)
(*                                                                         *)
(* A string is a sequence of character codes (ASCII), so that the          *)
(* character arithmetic of the source (c - '0', 'A' + col) is arithmetic.  *)
(* A double is a record [num, den]: a reduced fraction when den > 0,       *)
(* +-infinity when den = 0 and num # 0, NaN when both are 0, and a finite  *)
(* value beyond the range of int when den = -1.                            *)
(***************************************************************************)
EXTENDS Integers, Sequences, FiniteSets, TLC

(***************************************************************************)
(* Characters and strings                                                  *)
(***************************************************************************)
\* printable ASCII, codes 32..126, in code order (the double quote and the
\* backslash, which no string of the program contains, are left unnamed)
Ascii ==
  <<" ", "!", "dquote", "#", "$", "%", "&", "'", "(", ")", "*", "+", ",", "-", ".", "/",
    "0", "1", "2", "3", "4", "5", "6", "7", "8", "9", ":", ";", "<", "=", ">", "?",
    "@", "A", "B", "C", "D", "E", "F", "G", "H", "I", "J", "K", "L", "M", "N", "O",
    "P", "Q", "R", "S", "T", "U", "V", "W", "X", "Y", "Z", "[", "backslash", "]", "^", "_",
    "backtick", "a", "b", "c", "d", "e", "f", "g", "h", "i", "j", "k", "l", "m", "n", "o",
    "p", "q", "r", "s", "t", "u", "v", "w", "x", "y", "z", "{", "|", "}", "~">>

\* the code of a character literal
Chr(c) == 31 + CHOOSE i \in 1..Len(Ascii) : Ascii[i] = c

\* a string literal of the source, written as a tuple of characters
Str(cs) == [i \in 1..Len(cs) |-> Chr(cs[i])]

\* s.substr(1)
substr1(s) == SubSeq(s, 2, Len(s))

isdigit(c) == c >= Chr("0") /\ c <= Chr("9")

\* the ranges of int, short and char, and the conversions into them
\* (twos complement; written so that no intermediate value leaves 32 bits)
INT_MAX == 32767 * 65536 + 65535

INT_MIN == -INT_MAX - 1

ToShort(n) == LET m == n % 65536 IN IF m >= 32768 THEN m - 65536 ELSE m

ToChar(n) == LET m == n % 256 IN IF m >= 128 THEN m - 256 ELSE m

\* the int value of num * 10 + d.  Past INT_MAX the signed overflow is
\* undefined; the value here is the wrapped one, and no formula the model is
\* run on holds a literal that long
Mul10Add(num, d) ==
  LET h == num \div 65536
      l == num % 65536
      lo == l * 10 + d
      hi == (h * 10 + (lo \div 65536)) % 65536
  IN (IF hi >= 32768 THEN hi - 65536 ELSE hi) * 65536 + (lo % 65536)

\* std::to_string(int)
RECURSIVE Digits(_)
Digits(n) == IF n < 10 THEN <<Chr("0") + n>>
             ELSE Append(Digits(n \div 10), Chr("0") + (n % 10))

\* the digits of -n for n < 0, formed without negating n
NegDigits(n) ==
  LET m == -(n + 1)
  IN IF m % 10 = 9 THEN Append(Digits((m \div 10) + 1), Chr("0"))
     ELSE IF m < 10 THEN <<Chr("0") + m + 1>>
     ELSE Append(Digits(m \div 10), Chr("0") + (m % 10) + 1)

to_string(n) == IF n < 0 THEN <<Chr("-")>> \o NegDigits(n) ELSE Digits(n)

(***************************************************************************)
(* Utility functions of eltab.h                                            *)
(***************************************************************************)
is_string_literal(s) == Len(s) > 0 /\ s[1] = Chr("'")

is_expression(str) == Len(str) > 0 /\ str[1] = Chr("=")

is_number(s) == Len(s) > 0 /\ \A i \in 1..Len(s) : isdigit(s[i])

\* coords = <<row, col>>, zero-based
get_cell_by_coords(coords) ==
  LET row == coords[1]
      col == coords[2]
      c == IF col < 26 THEN ToChar(Chr("A") + col)
           ELSE IF col >= 26 /\ col < 52 THEN ToChar(Chr("a") + col)
           ELSE Chr(" ")
  IN <<c>> \o to_string(row + 1)

\* the loop of get_number_by_str from position it (Len(str) + 1 is str.end());
\* returns the number and the position the iterator is left at
RECURSIVE NumberLoop(_, _, _)
NumberLoop(it, str, num) ==
  IF it > Len(str) THEN [num |-> num, it |-> it]
  ELSE LET n == Mul10Add(num, str[it] - Chr("0"))
       IN IF it + 1 > Len(str) \/ ~isdigit(str[it + 1])
          THEN [num |-> n, it |-> it]
          ELSE NumberLoop(it + 1, str, n)

get_number_by_str(it, str) == NumberLoop(it, str, 0)

(***************************************************************************)
(* double arithmetic (Token::n_value)                                      *)
(***************************************************************************)
\* The conversion to int of a double that has no int value (NaN, infinity,
\* out of range) is undefined.  A build yields some int for it; cast_ub is
\* empty until the program has made such a conversion and holds the int this
\* build yields from then on.
VARIABLE cast_ub

RECURSIVE GCD(_, _)
GCD(a, b) == IF b = 0 THEN a ELSE GCD(b, a % b)

Abs(n) == IF n < 0 THEN -n ELSE n

Sign(n) == IF n < 0 THEN -1 ELSE IF n > 0 THEN 1 ELSE 0

\* the fraction n / d, d # 0, reduced and with a positive denominator
Frac(n, d) ==
  LET g == GCD(Abs(n), Abs(d))
  IN [num |-> Sign(d) * (n \div g), den |-> Abs(d) \div g]

\* int -> double
FromInt(val) == [num |-> val, den |-> 1]

\* a finite double beyond the range of int, of sign s (its value is not kept:
\* the only thing the program does with it is to convert it to int)
Big(s) == [num |-> s, den |-> -1]

IsInt(x) == x.den = 1

IsFrac(x) == x.den > 0

\* the sum and the product of two ints as doubles, exact as in the program;
\* the sums and products are formed only where they fit 32 bits
IntAdd(a, b) ==
  IF a > 0 /\ b > 0 /\ a > INT_MAX - b THEN Big(1)
  ELSE IF a < 0 /\ b < 0 /\ a < INT_MIN - b THEN Big(-1)
  ELSE FromInt(a + b)

IntSub(a, b) ==
  IF b < 0 /\ a > INT_MAX + b THEN Big(1)
  ELSE IF b > 0 /\ a < INT_MIN + b THEN Big(-1)
  ELSE FromInt(a - b)

IntMul(a, b) ==
  IF a = 0 \/ b = 0 THEN FromInt(0)
  ELSE IF a = INT_MIN \/ b = INT_MIN
       THEN IF a = 1 \/ b = 1 THEN FromInt(INT_MIN) ELSE Big(Sign(a) * Sign(b))
  ELSE IF Abs(a) <= INT_MAX \div Abs(b) THEN FromInt(a * b)
  ELSE IF /\ Sign(a) * Sign(b) < 0
          /\ Abs(a) - 1 = INT_MAX \div Abs(b)
          /\ INT_MAX % Abs(b) = Abs(b) - 1
       THEN FromInt(INT_MIN)
  ELSE Big(Sign(a) * Sign(b))

DAdd(x, y) ==
  IF IsInt(x) /\ IsInt(y) THEN IntAdd(x.num, y.num)
  ELSE IF ~IsFrac(x) THEN x
  ELSE IF ~IsFrac(y) THEN y
  ELSE Frac(x.num * y.den + y.num * x.den, x.den * y.den)

DSub(x, y) ==
  IF IsInt(x) /\ IsInt(y) THEN IntSub(x.num, y.num)
  ELSE IF ~IsFrac(x) THEN x
  ELSE IF ~IsFrac(y) THEN [y EXCEPT !.num = -y.num]
  ELSE Frac(x.num * y.den - y.num * x.den, x.den * y.den)

DMul(x, y) ==
  IF IsInt(x) /\ IsInt(y) THEN IntMul(x.num, y.num)
  ELSE IF ~IsFrac(x) THEN x
  ELSE IF ~IsFrac(y) THEN y
  ELSE Frac(x.num * y.num, x.den * y.den)

\* x / y: +-infinity for a non-zero x over zero, NaN for 0/0.  (INT_MIN over
\* an odd negative y is kept as INT_MAX / -y, which has the same integer part.)
DDiv(x, y) ==
  IF ~IsFrac(x) THEN x
  ELSE IF ~IsFrac(y) THEN FromInt(0)
  ELSE IF y.num = 0 THEN [num |-> Sign(x.num), den |-> 0]
  ELSE IF x.num = INT_MIN /\ IsInt(y)
       THEN IF y.num = -1 THEN Big(1)
            ELSE IF y.num = 1 THEN x
            ELSE IF y.num % 2 = 0 THEN Frac(x.num \div 2, y.num \div 2)
            ELSE IF y.num > 0 THEN [num |-> INT_MIN, den |-> y.num]
            ELSE Frac(INT_MAX, -y.num)
  ELSE Frac(x.num * y.den, x.den * y.num)

isinf(x) == x.den = 0 /\ x.num # 0

isnan(x) == x.den = 0 /\ x.num = 0

\* the quotient rounded toward zero
Trunc(x) ==
  IF x.num < 0 THEN -((-(x.num + 1)) \div x.den) - (IF (-(x.num + 1)) % x.den = x.den - 1 THEN 1 ELSE 0)
  ELSE x.num \div x.den

\* what the conversion to int of a double without int value may yield
CastUndefined == IF cast_ub = {} THEN {INT_MIN, 0} ELSE cast_ub

\* static_cast<int>(double): the set of values the conversion may yield
static_cast_int(x) == IF ~IsFrac(x) THEN CastUndefined ELSE {Trunc(x)}

(***************************************************************************)
(* struct Token                                                            *)
(***************************************************************************)
\* Token(): n_value is left unset and is never read while the type is not
\* T_NUMBER; it is modelled as 0
Token == [type |-> "T_UNDEFINED", n_value |-> FromInt(0), s_value |-> <<>>]

\* Token(const int val)
TokenNumber(val) == [type |-> "T_NUMBER", n_value |-> FromInt(val), s_value |-> <<>>]

\* Token(const string &val)
TokenString(val) == [type |-> "T_STRING", n_value |-> FromInt(0), s_value |-> val]

is_incomplete(tok) == tok.type = "T_UNDEFINED"

\* Token::to_string(): a set, because the conversion to int may be undefined
Token_to_string(tok) ==
  IF tok.type = "T_NUMBER"
  THEN {to_string(i) : i \in static_cast_int(tok.n_value)}
  ELSE {tok.s_value}

(***************************************************************************)
(* The messages of the exceptions                                          *)
(***************************************************************************)
E_UNEXP_SYMBOL == Str(<<"#", "E", "_", "U", "N", "E", "X", "P", "_", "S", "Y", "M", "B", "O", "L">>)

E_UNEXP_SYMB == Str(<<"#", "E", "_", "U", "N", "E", "X", "P", "_", "S", "Y", "M", "B">>)

E_INVALID_REF == Str(<<"#", "E", "_", "I", "N", "V", "A", "L", "I", "D", "_", "R", "E", "F">>)

E_CROSS_REF == Str(<<"#", "E", "_", "C", "R", "O", "S", "S", "_", "R", "E", "F">>)

E_WRONG_REF == Str(<<"E", "_", "W", "R", "O", "N", "G", "_", "R", "E", "F">>)

E_UNEXP_EXPR == Str(<<"#", "E", "_", "U", "N", "E", "X", "P", "_", "E", "X", "P", "R">>)

E_INFINITE == Str(<<"#", "E", "_", "I", "N", "F", "I", "N", "I", "T", "E">>)

E_UNKNOWN_OP == Str(<<"#", "E", "_", "U", "N", "K", "N", "O", "W", "N", "_", "O", "P">>)

E_UNKNOWN == Str(<<"#", "E", "_", "U", "N", "K", "N", "O", "W", "N">>)

E_INTERNAL == Str(<<"I", "n", "t", "e", "r", "n", "a", "l", " ", "e", "r", "r", "o", "r", ":", " ",
                    "p", "a", "r", "s", "e", "_", "r", "e", "f", "e", "r", "e", "n", "c", "e", "(", ")">>)

E_STOI == Str(<<"s", "t", "o", "i">>)

\* what a call hands back to its caller: a token, or an exception in flight
NoReturn == [kind |-> "none", tok |-> Token, what |-> <<>>]

Return(tok) == [kind |-> "value", tok |-> tok, what |-> <<>>]

domain_error(what) == [kind |-> "domain_error", tok |-> Token, what |-> what]

logic_error(what) == [kind |-> "logic_error", tok |-> Token, what |-> what]

(***************************************************************************)
(* class Tokenizer: state                                                  *)
(***************************************************************************)
VARIABLES
  m_rows,          \* number of rows of the table
  m_cols,          \* number of columns of the table
  m_table,         \* m_table[row][col]: the raw text of a cell
  m_expressions,   \* the formula records [m_coords, m_value], in the driver's order
  map_ref_cells,   \* the cache: cell identity -> Token
  pc,              \* run(): "run" between iterations, "try" inside the call of line 18, "done" returned
  idx,             \* run(): the position of the loop in m_expressions
  stack,           \* the activations of parse_expr and parse_reference below run()
  ret,             \* the token or exception on its way from a callee to its caller
  diag,            \* number of lines run() has written to cerr
  evals,           \* cell identity -> how often the evaluation of the cell was started
  divzero,         \* identities of the cells whose formula divided by a zero divisor
  textop,          \* identities of the cells whose formula applied an operator to a Text token
  prev             \* the previous run: valid and what it displayed if it was over the
                   \* same table; the cell blanked in the table since and the cache
                   \* it ended with if it was over the table with that cell's formula

vars == <<m_rows, m_cols, m_table, m_expressions, map_ref_cells, pc, idx, stack, ret,
          diag, evals, divzero, textop, prev, cast_ub>>

table == <<m_rows, m_cols, m_table>>

\* what no step of run, parse_reference or the end of parse_expr changes
fixed == <<m_rows, m_cols, m_table, cast_ub>>

\* (faulty variant) setting a key drops the other entries
Put_Forgetting(m, k, v) == [x \in {k} |-> v]

\* an unordered_map with key k set to v
Put(m, k, v) == [x \in DOMAIN m \cup {k} |-> IF x = k THEN v ELSE m[x]]

EmptyMap == [x \in {} |-> 0]

(***************************************************************************)
(* class Tokenizer: private helpers                                        *)
(***************************************************************************)
is_ref_candidate(c) ==
  \/ m_cols <= 26 /\ c >= Chr("A") /\ c <= Chr("A") + (m_cols - 1)
  \/ m_cols > 26 /\ m_cols <= 52 /\ c >= Chr("a") /\ c <= Chr("a") + (m_cols - 26 - 1)

get_col_by_char(c) ==
  IF m_cols <= 26 THEN ToShort(c - Chr("A"))
  ELSE IF m_cols > 26 /\ m_cols <= 52 THEN ToShort(c - Chr("a"))
  ELSE -1

get_operator(ch) ==
  IF ch = Chr("*") THEN "OP_MUL"
  ELSE IF ch = Chr("/") THEN "OP_DIV"
  ELSE IF ch = Chr("+") THEN "OP_ADD"
  ELSE IF ch = Chr("-") THEN "OP_SUB"
  ELSE "OP_UNKNOWN"

is_operator(ch) == "OP_UNKNOWN" # get_operator(ch)

(***************************************************************************)
(* Tokenizer::evaluate                                                     *)
(***************************************************************************)
\* (faulty variant) only the left operand is tested
OperandsAreNumbers_LeftOnly(left, right) == left.type = "T_NUMBER"

\* lines 83-85: both operands must be numbers
OperandsAreNumbers(left, right) == left.type = "T_NUMBER" /\ right.type = "T_NUMBER"

\* (faulty variant) the operands are taken from the stack in the wrong order
Arith_Swapped(l, r, op) ==
  IF op = "OP_ADD" THEN DAdd(r, l)
  ELSE IF op = "OP_SUB" THEN DSub(r, l)
  ELSE IF op = "OP_MUL" THEN DMul(r, l)
  ELSE DDiv(r, l)

\* lines 88-94: the operator applied to the two doubles
Arith(l, r, op) ==
  IF op = "OP_ADD" THEN DAdd(l, r)
  ELSE IF op = "OP_SUB" THEN DSub(l, r)
  ELSE IF op = "OP_MUL" THEN DMul(l, r)
  ELSE DDiv(l, r)

\* line 95: the test that is to detect a division by zero
DivisionFails(v) == isinf(v)

\* (faulty variant) the result is rounded down instead of toward zero
Truncate_Floor(v) ==
  IF IsFrac(v) THEN {FromInt(v.num \div v.den)} ELSE {FromInt(i) : i \in CastUndefined}

\* line 102: left.n_value = static_cast<int>(left.n_value)
Truncate(v) == {FromInt(i) : i \in static_cast_int(v)}

\* the set of outcomes of evaluate on the two topmost tokens of toks
evaluate(toks, op) ==
  LET right == toks[Len(toks)]
      left == toks[Len(toks) - 1]
  IN IF ~OperandsAreNumbers(left, right) THEN {domain_error(E_UNEXP_EXPR)}
     ELSE IF op \notin {"OP_ADD", "OP_SUB", "OP_MUL", "OP_DIV"}
          THEN {domain_error(E_UNKNOWN_OP)}
     ELSE LET v == Arith(left.n_value, right.n_value, op)
          IN IF op = "OP_DIV" /\ DivisionFails(v) THEN {domain_error(E_INFINITE)}
             ELSE {Return([left EXCEPT !.n_value = n]) : n \in Truncate(v)}

(***************************************************************************)
(* Tokenizer::parse_expr: one iteration of the scan                        *)
(***************************************************************************)
\* an activation of parse_expr(str); st is "scan" in the loop and "call"
\* while parse_reference (line 161) runs
ExprFrame(str) ==
  [fn |-> "parse_expr", coords |-> <<0, 0>>, scell |-> <<>>, str |-> str, it |-> 1,
   toks |-> <<>>, op |-> "OP_NONE", tok |-> Token, st |-> "scan"]

\* an activation of parse_reference(coords); st is "reserve" before line 41,
\* "dispatch" before line 48, "wait" in the call of line 51, "commit" before line 71
RefFrame(coords) ==
  [fn |-> "parse_reference", coords |-> coords, scell |-> get_cell_by_coords(coords),
   str |-> <<>>, it |-> 1, toks |-> <<>>, op |-> "OP_NONE", tok |-> Token, st |-> "reserve"]

\* the ways an iteration ends: the loop goes on, an exception leaves parse_expr,
\* or parse_reference is called
GoOn(f) ==
  [kind |-> "next", frame |-> f, ret |-> NoReturn, coords |-> <<0, 0>>, dz |-> FALSE,
   ub |-> {}, tx |-> FALSE]

Throw(f, e) ==
  [kind |-> "throw", frame |-> f, ret |-> e, coords |-> <<0, 0>>, dz |-> FALSE, ub |-> {},
   tx |-> FALSE]

Call(f, coords) ==
  [kind |-> "call", frame |-> f, ret |-> NoReturn, coords |-> coords, dz |-> FALSE,
   ub |-> {}, tx |-> FALSE]

\* lines 131 and 165: two operands and an operator are at hand
ReadyToReduce(toks, op) == Len(toks) = 2 /\ op # "OP_NONE" /\ op # "OP_UNKNOWN"

\* the division about to be evaluated has a zero divisor (observed for divzero)
DividesByZero(toks, op) ==
  /\ op = "OP_DIV"
  /\ toks[Len(toks)].type = "T_NUMBER" /\ toks[Len(toks) - 1].type = "T_NUMBER"
  /\ toks[Len(toks)].n_value.num = 0

\* one of the two operands about to be evaluated is a Text token (observed
\* for textop)
TextOperand(toks) ==
  toks[Len(toks)].type = "T_STRING" \/ toks[Len(toks) - 1].type = "T_STRING"

\* the evaluation converts a double without int value (observed for cast_ub)
UndefinedCast(toks, op) ==
  /\ toks[Len(toks)].type = "T_NUMBER" /\ toks[Len(toks) - 1].type = "T_NUMBER"
  /\ op \in {"OP_ADD", "OP_SUB", "OP_MUL", "OP_DIV"}
  /\ LET v == Arith(toks[Len(toks) - 1].n_value, toks[Len(toks)].n_value, op)
     IN ~IsFrac(v) /\ ~(op = "OP_DIV" /\ DivisionFails(v))

\* lines 130-135 and 164-169: push the operand, reduce when ready
PushOperand(f, operand) ==
  LET toks1 == Append(f.toks, operand)
  IN IF ReadyToReduce(toks1, f.op)
     THEN {[(IF o.kind = "value"
             THEN GoOn([f EXCEPT !.toks = Append(SubSeq(toks1, 1, Len(toks1) - 2), o.tok),
                                 !.tok = o.tok, !.op = "OP_NONE"])
             ELSE Throw(f, o))
              EXCEPT !.dz = DividesByZero(toks1, f.op),
                     !.tx = TextOperand(toks1),
                     !.ub = IF o.kind = "value" /\ UndefinedCast(toks1, f.op)
                            THEN {o.tok.n_value.num} ELSE {}]
             : o \in evaluate(toks1, f.op)}
     ELSE {GoOn([f EXCEPT !.toks = toks1])}

\* line 122: an operator is misplaced
OperatorMisplaced(f) == f.op # "OP_NONE" \/ f.toks = <<>>

\* line 145: the row of a reference is out of the table
RowOutOfBound(row) == row + 1 > m_rows \/ row < 0

\* (faulty variant) the cache is not inspected before parse_reference is called
ExprCached_Never(scell) == FALSE

\* line 152: the referenced cell has a cache entry
ExprCached(scell) == scell \in DOMAIN map_ref_cells

\* (faulty variant) the incomplete entry is taken for a resolved one
ExprCrossRef_Unchecked(scell) == FALSE

\* line 153: the entry of the referenced cell is incomplete
ExprCrossRef(scell) == is_incomplete(map_ref_cells[scell])

\* lines 121-173: the body of the loop for the character at f.it
parse_expr_step(f) ==
  LET c == f.str[f.it]
  IN IF is_operator(c)
     THEN IF OperatorMisplaced(f) THEN {Throw(f, domain_error(E_UNEXP_SYMBOL))}
          ELSE {GoOn([f EXCEPT !.op = get_operator(c)])}
     ELSE IF isdigit(c)
     THEN LET r == get_number_by_str(f.it, f.str)
          IN PushOperand([f EXCEPT !.it = r.it], TokenNumber(r.num))
     ELSE IF is_ref_candidate(c)
     THEN LET col == get_col_by_char(c)
              r == get_number_by_str(f.it + 1, f.str)
              row == ToShort(r.num - 1)
              f1 == [f EXCEPT !.it = r.it]
              coords == <<row, col>>
              scell == get_cell_by_coords(coords)
          IN IF RowOutOfBound(row) THEN {Throw(f1, domain_error(E_INVALID_REF))}
             ELSE IF ExprCached(scell)
                  THEN IF ExprCrossRef(scell) THEN {Throw(f1, domain_error(E_CROSS_REF))}
                       ELSE PushOperand([f1 EXCEPT !.tok = map_ref_cells[scell]],
                                        map_ref_cells[scell])
                  ELSE {Call(f1, coords)}
     ELSE {Throw(f, domain_error(E_UNEXP_SYMB))}

\* lines 176-181: the token parse_expr returns at the end of the scan
parse_expr_result(f) == IF Len(f.toks) = 1 THEN f.toks[Len(f.toks)] ELSE f.tok

(***************************************************************************)
(* Tokenizer::parse_reference                                              *)
(***************************************************************************)
\* (faulty variant) the cell is not reserved before its content is evaluated
Emplace_Skipped(m, scell) == m

\* lines 14 and 45: map_ref_cells.emplace(make_pair(scell, Token()))
Emplace(m, scell) == IF scell \in DOMAIN m THEN m ELSE Put(m, scell, Token)

\* line 41: the cell to resolve has a cache entry already
RefReserved(scell) == scell \in DOMAIN map_ref_cells

\* std::stoi of a string of digits: the value, or -1 for std::out_of_range
RECURSIVE StoiLoop(_, _, _)
StoiLoop(s, i, v) ==
  IF i > Len(s) THEN v
  ELSE LET d == s[i] - Chr("0")
       IN IF v > (INT_MAX - d) \div 10 THEN -1 ELSE StoiLoop(s, i + 1, v * 10 + d)

stoi(s) == StoiLoop(s, 1, 0)

\* lines 48-69: the token for the raw text s, or the exception that leaves
\* parse_reference; a formula is handed to parse_expr (kind "call")
Classify(s) ==
  IF is_expression(s) THEN [kind |-> "call", tok |-> Token, what |-> substr1(s)]
  ELSE IF is_number(s)
       THEN IF stoi(s) < 0 THEN logic_error(E_STOI) ELSE Return(TokenNumber(stoi(s)))
  ELSE IF is_string_literal(s) THEN Return(TokenString(substr1(s)))
  ELSE IF s = <<>> THEN Return(TokenString(<<>>))
  ELSE domain_error(E_WRONG_REF)

\* lines 49-56: what parse_reference makes of the outcome of parse_expr
RefCatch(r) == IF r.kind = "domain_error" THEN Return(TokenString(r.what)) ELSE r

(***************************************************************************)
(* Tokenizer::run                                                          *)
(***************************************************************************)
\* (faulty variant) the driver evaluates every record, cached or not
RunSkips_Never(scell) == FALSE

\* line 10: the record's cell has a cache entry already
RunSkips(scell) == scell \in DOMAIN map_ref_cells

\* lines 15-27: the token run() commits for the outcome of parse_expr
RunCatch(r) ==
  IF r.kind = "value" THEN r.tok
  ELSE IF r.kind = "domain_error" THEN TokenString(r.what)
  ELSE Token

\* lines 24-27: the outcome is reported on cerr
RunReports(r) == r.kind = "logic_error"

\* Tokenizer::get_value
get_value(coords) ==
  LET scell == get_cell_by_coords(coords)
  IN IF scell \in DOMAIN map_ref_cells THEN Token_to_string(map_ref_cells[scell])
     ELSE Token_to_string(Token)

(***************************************************************************)
(* The machine                                                             *)
(***************************************************************************)
Top == stack[Len(stack)]

Pop == SubSeq(stack, 1, Len(stack) - 1)

\* the cell run() is working on
RunCell == get_cell_by_coords(m_expressions[idx].m_coords)

\* the cell whose formula the topmost parse_expr scans
CurrentCell == IF Len(stack) = 1 THEN RunCell ELSE stack[Len(stack) - 1].scell

Bump(m, k) ==
  [x \in DOMAIN m \cup {k} |-> IF x # k THEN m[x] ELSE IF k \in DOMAIN m THEN m[k] + 1 ELSE 1]

\* the effect of one iteration's outcome r on the stack
Outcome(r) ==
  /\ stack' = IF r.kind = "next" THEN Append(Pop, [r.frame EXCEPT !.it = @ + 1])
              ELSE IF r.kind = "throw" THEN Pop
              ELSE Pop \o <<[r.frame EXCEPT !.st = "call"], RefFrame(r.coords)>>
  /\ ret' = r.ret
  /\ divzero' = IF r.dz THEN divzero \cup {CurrentCell} ELSE divzero
  /\ textop' = IF r.tx THEN textop \cup {CurrentCell} ELSE textop
  /\ cast_ub' = IF r.ub # {} THEN r.ub ELSE cast_ub

\* run(), lines 7-18: the next record is skipped, or reserved and handed to parse_expr
RunIter ==
  /\ pc = "run" /\ idx <= Len(m_expressions)
  /\ IF RunSkips(RunCell)
     THEN /\ idx' = idx + 1
          /\ UNCHANGED <<map_ref_cells, pc, stack, evals>>
     ELSE /\ map_ref_cells' = Emplace(map_ref_cells, RunCell)
          /\ stack' = <<ExprFrame(m_expressions[idx].m_value)>>
          /\ pc' = "try"
          /\ evals' = Bump(evals, RunCell)
          /\ UNCHANGED idx
  /\ UNCHANGED <<fixed, m_expressions, ret, diag, divzero, textop, prev>>

\* run(), lines 18-28: parse_expr is back; the token is committed
RunCommit ==
  /\ pc = "try" /\ stack = <<>> /\ ret.kind # "none"
  /\ map_ref_cells' = Put(map_ref_cells, RunCell, RunCatch(ret))
  /\ diag' = IF RunReports(ret) THEN diag + 1 ELSE diag
  /\ ret' = NoReturn
  /\ idx' = idx + 1
  /\ pc' = "run"
  /\ UNCHANGED <<fixed, m_expressions, stack, evals, divzero, textop, prev>>

\* run(), line 30: the loop is over
RunReturn ==
  /\ pc = "run" /\ idx > Len(m_expressions)
  /\ pc' = "done"
  /\ UNCHANGED <<fixed, m_expressions, map_ref_cells, idx, stack, ret, diag, evals,
                 divzero, textop, prev>>

\* parse_expr, lines 120-174: one iteration of the scan
ScanChar ==
  /\ stack # <<>> /\ ret.kind = "none"
  /\ Top.fn = "parse_expr" /\ Top.st = "scan" /\ Top.it <= Len(Top.str)
  /\ \E r \in parse_expr_step(Top) : Outcome(r)
  /\ UNCHANGED <<table, m_expressions, map_ref_cells, pc, idx, diag, evals, prev>>

\* parse_expr, lines 161-169: parse_reference is back
ExprResume ==
  /\ stack # <<>> /\ ret.kind # "none"
  /\ Top.fn = "parse_expr" /\ Top.st = "call"
  /\ IF ret.kind = "value"
     THEN \E r \in PushOperand([Top EXCEPT !.tok = ret.tok, !.st = "scan"], ret.tok) :
            Outcome(r)
     ELSE /\ stack' = Pop
          /\ UNCHANGED <<ret, divzero, textop, cast_ub>>
  /\ UNCHANGED <<table, m_expressions, map_ref_cells, pc, idx, diag, evals, prev>>

\* parse_expr, lines 176-181: the scan is over
ExprReturn ==
  /\ stack # <<>> /\ ret.kind = "none"
  /\ Top.fn = "parse_expr" /\ Top.st = "scan" /\ Top.it > Len(Top.str)
  /\ stack' = Pop
  /\ ret' = Return(parse_expr_result(Top))
  /\ UNCHANGED <<fixed, m_expressions, map_ref_cells, pc, idx, diag, evals, divzero,
                 textop, prev>>

\* parse_reference, lines 34-46: the cell is reserved, or the call is a misuse
RefReserve ==
  /\ stack # <<>> /\ ret.kind = "none"
  /\ Top.fn = "parse_reference" /\ Top.st = "reserve"
  /\ IF RefReserved(Top.scell)
     THEN /\ stack' = Pop
          /\ ret' = logic_error(E_INTERNAL)
          /\ UNCHANGED map_ref_cells
     ELSE /\ map_ref_cells' = Emplace(map_ref_cells, Top.scell)
          /\ stack' = Append(Pop, [Top EXCEPT !.st = "dispatch"])
          /\ UNCHANGED ret
  /\ UNCHANGED <<fixed, m_expressions, pc, idx, diag, evals, divzero, textop, prev>>

\* parse_reference, lines 48-69: the raw text is classified
RefDispatch ==
  /\ stack # <<>> /\ ret.kind = "none"
  /\ Top.fn = "parse_reference" /\ Top.st = "dispatch"
  /\ LET r == Classify(m_table[Top.coords[1]][Top.coords[2]])
     IN IF r.kind = "call"
        THEN /\ stack' = Pop \o <<[Top EXCEPT !.st = "wait"], ExprFrame(r.what)>>
             /\ UNCHANGED ret
        ELSE IF r.kind = "value"
        THEN /\ stack' = Append(Pop, [Top EXCEPT !.tok = r.tok, !.st = "commit"])
             /\ UNCHANGED ret
        ELSE /\ stack' = Pop
             /\ ret' = r
  /\ evals' = Bump(evals, Top.scell)
  /\ UNCHANGED <<fixed, m_expressions, map_ref_cells, pc, idx, diag, divzero, textop, prev>>

\* parse_reference, lines 51-56: parse_expr is back
RefResume ==
  /\ stack # <<>> /\ ret.kind # "none"
  /\ Top.fn = "parse_reference" /\ Top.st = "wait"
  /\ LET r == RefCatch(ret)
     IN IF r.kind = "value"
        THEN /\ stack' = Append(Pop, [Top EXCEPT !.tok = r.tok, !.st = "commit"])
             /\ ret' = NoReturn
        ELSE /\ stack' = Pop
             /\ ret' = r
  /\ UNCHANGED <<fixed, m_expressions, map_ref_cells, pc, idx, diag, evals, divzero,
                 textop, prev>>

\* parse_reference, lines 71-73: the token is committed and returned
RefCommit ==
  /\ stack # <<>> /\ ret.kind = "none"
  /\ Top.fn = "parse_reference" /\ Top.st = "commit"
  /\ map_ref_cells' = Put(map_ref_cells, Top.scell, Top.tok)
  /\ stack' = Pop
  /\ ret' = Return(Top.tok)
  /\ UNCHANGED <<fixed, m_expressions, pc, idx, diag, evals, divzero, textop, prev>>

(***************************************************************************)
(* main: the loader, the printer, and the inputs                           *)
(***************************************************************************)
\* main, lines 269-280: what the loader stores for the datum of a cell
LoadCell(data) ==
  IF is_expression(data) THEN data
  ELSE IF data = <<>> \/ is_number(data) \/ is_string_literal(data) THEN data
  ELSE E_UNKNOWN

\* main, lines 246-285: the formula records in the order the loader meets them
\* (row by row, left to right); k counts the cells from 0
RECURSIVE Collect(_, _, _, _)
Collect(rows, cols, data, k) ==
  IF k >= rows * cols THEN <<>>
  ELSE LET i == k \div cols
           j == k % cols
       IN (IF is_expression(data[i][j])
           THEN <<[m_coords |-> <<i, j>>, m_value |-> substr1(data[i][j])]>>
           ELSE <<>>) \o Collect(rows, cols, data, k + 1)

\* main, lines 292-301: what is printed for the formula cells
Shown == [e \in {m_expressions[k].m_coords : k \in 1..Len(m_expressions)} |-> get_value(e)]

\* the orders a vector of the same records can have
Orders(exprs) ==
  {[k \in 1..Len(exprs) |-> exprs[p[k]]] :
     p \in {q \in [1..Len(exprs) -> 1..Len(exprs)] :
              \A a, b \in 1..Len(exprs) : q[a] = q[b] => a = b}}

\* ---- the inputs the model is run on ----
\* number of columns of the one-row tables of references
NCols == 3

\* largest number of operands of the generated arithmetic formulas
MaxOperands == 3

Row(cells) == [i \in {0} |-> [j \in 0..(Len(cells) - 1) |-> cells[j + 1]]]

OneRow(cells) == [rows |-> 1, cols |-> Len(cells), data |-> Row(cells)]

\* the text of a reference to the cell of row 1 in column c
RefTo(c) == get_cell_by_coords(<<0, c>>)

\* one-row tables whose cells are single references, an empty formula, a
\* number, or text the loader does not support
RefData == {<<Chr("=")>> \o RefTo(c) : c \in 0..(NCols - 1)}
             \cup {Str(<<"=">>), Str(<<"7">>), Str(<<"x">>)}

RefInputs ==
  {[rows |-> 1, cols |-> NCols, data |-> [i \in {0} |-> d]] : d \in [0..(NCols - 1) -> RefData]}

Literals == {Str(<<"0">>), Str(<<"2">>), Str(<<"7">>)}

Operators == {Chr("+"), Chr("-"), Chr("*"), Chr("/")}

\* the texts n1 op1 n2 ... nk over the literals
RECURSIVE LiteralChains(_)
LiteralChains(k) ==
  IF k = 1 THEN Literals
  ELSE {f \o <<o>> \o n : f \in LiteralChains(k - 1), o \in Operators, n \in Literals}

\* the texts A1 op1 B1 ... over the first k cells of row 1
RECURSIVE ReferenceChains(_)
ReferenceChains(k) ==
  IF k = 1 THEN {RefTo(0)}
  ELSE {f \o <<o>> \o RefTo(k - 1) : f \in ReferenceChains(k - 1), o \in Operators}

\* a table of one cell holding a formula over literals
LiteralInputs ==
  {OneRow(<<(<<Chr("=")>> \o f)>>) : f \in UNION {LiteralChains(k) : k \in 1..MaxOperands}}

\* a one-row table of MaxOperands numbers and a formula over references to them
ReferenceInputs ==
  {[rows |-> 1, cols |-> MaxOperands + 1,
    data |-> [i \in {0} |-> [j \in 0..MaxOperands |->
                IF j < MaxOperands THEN v[j] ELSE <<Chr("=")>> \o f]]] :
     v \in [0..(MaxOperands - 1) -> Literals], f \in ReferenceChains(MaxOperands)}

\* the table of the comment of main (lines 193-196)
ExampleInput ==
  [rows |-> 3, cols |-> 4,
   data |-> [i \in 0..2 |-> [j \in 0..3 |->
     <<<<Str(<<"1", "2">>), Str(<<"=", "C", "2">>), Str(<<"3">>),
         Str(<<"'", "S", "a", "m", "p", "l", "e">>)>>,
       <<Str(<<"=", "A", "1", "+", "B", "1", "*", "C", "1", "/", "5">>),
         Str(<<"=", "A", "2", "*", "B", "1">>), Str(<<"=", "B", "3", "-", "C", "3">>),
         Str(<<"'", "S", "p", "r", "e", "a", "d">>)>>,
       <<Str(<<"'", "T", "e", "s", "t">>), Str(<<"=", "4", "-", "3">>), Str(<<"5">>),
         Str(<<"'", "S", "h", "e", "e", "t">>)>>>>[i + 1][j + 1]]]]

\* tables of single documented cases
SpecialInputs ==
  {ExampleInput,
   OneRow(<<Str(<<"=", "2", "+", "3", "*", "4">>)>>),
   OneRow(<<Str(<<"=", "7", "/", "2">>)>>),
   OneRow(<<Str(<<"=", "7", "/", "2", "+", "1">>)>>),
   OneRow(<<Str(<<"=", "1", "-", "8", "/", "2">>)>>),
   OneRow(<<Str(<<"=", "5", "/", "0">>)>>),
   OneRow(<<Str(<<"=", "B", "1">>), Str(<<"=", "C", "1">>),
            Str(<<"9", "9", "9", "9", "9", "9", "9", "9", "9", "9", "9">>)>>)}

\* a number and a reference to column A with a row number outside the table:
\* rows 0, 2, 65536, 65537 and 131073 of a table of one row
RowNumbers ==
  {Str(<<"0">>), Str(<<"2">>), Str(<<"6", "5", "5", "3", "6">>),
   Str(<<"6", "5", "5", "3", "7">>), Str(<<"1", "3", "1", "0", "7", "3">>)}

RowInputs == {OneRow(<<Str(<<"7">>), Str(<<"=", "A">>) \o r>>) : r \in RowNumbers}

\* a string literal, an empty cell, and formulas that are one reference to them
TextInputs ==
  {OneRow(<<Str(<<"'", "h", "e", "l", "l", "o">>), <<>>, Str(<<"=", "A", "1">>),
            Str(<<"=", "B", "1">>)>>)}

\* formulas of one operator with an operand that is a string literal, an empty
\* cell, or a cell whose formula failed
TextFormulas ==
  {Str(<<"=", "A", "1", "+", "2">>), Str(<<"=", "2", "*", "B", "1">>),
   Str(<<"=", "C", "1", "-", "1">>), Str(<<"=", "A", "1", "/", "B", "1">>)}

TextOperandInputs ==
  {OneRow(<<Str(<<"'", "h", "e", "l", "l", "o">>), <<>>, Str(<<"=", "5", "/", "0">>), f>>) :
     f \in TextFormulas}

\* formulas whose scan ends with an operator that was not applied or with
\* operands that no operator joined
UnfinishedFormulas ==
  {Str(<<"=", "5", "+">>), Str(<<"=", "A", "1", "+">>), Str(<<"=", "A", "1", "B", "1">>),
   Str(<<"=", "7", "A", "1">>), Str(<<"=", "A", "1", "B", "1", "+", "5">>),
   Str(<<"=", "A", "1", "B", "1", "C", "1">>)}

UnfinishedInputs ==
  {OneRow(<<Str(<<"7">>), Str(<<"2">>), Str(<<"3">>), f>>) : f \in UnfinishedFormulas}

\* the number of columns one block of letters addresses
Letters == 26

\* a row of Letters + 1 cells: 7 in the first column, 9 in the last, and the
\* formulas =a1 and =A1 in the second and third column
WideInputs ==
  {[rows |-> 1, cols |-> Letters + 1,
    data |-> [i \in {0} |-> [j \in 0..Letters |->
                IF j = 0 THEN Str(<<"7">>)
                ELSE IF j = 1 THEN Str(<<"=", "a", "1">>)
                ELSE IF j = 2 THEN Str(<<"=", "A", "1">>)
                ELSE IF j = Letters THEN Str(<<"9">>)
                ELSE <<>>]]]}

\* formulas that start with a column letter no digit follows
LetterFormulas ==
  {Str(<<"=", "A">>), Str(<<"=", "A", "+", "1">>), Str(<<"=", "A", "B", "1">>),
   Str(<<"=", "A", ":">>), Str(<<"=", "A", "A">>)}

LetterInputs == {OneRow(<<f, Str(<<"7">>)>>) : f \in LetterFormulas}

\* a column of n cells: the formula f in the first row, 5 in the last
Column(n, f) ==
  [rows |-> n, cols |-> 1,
   data |-> [i \in 0..(n - 1) |-> [j \in {0} |->
               IF i = 0 THEN f ELSE IF i = n - 1 THEN Str(<<"5">>) ELSE <<>>]]]

\* the formulas =A: and =AA in columns of 10 and of 17 rows
TallInputs == {Column(10, Str(<<"=", "A", ":">>)), Column(17, Str(<<"=", "A", "A">>))}

Inputs ==
  RefInputs \cup LiteralInputs \cup ReferenceInputs \cup SpecialInputs \cup RowInputs
    \cup TextInputs \cup TextOperandInputs \cup UnfinishedInputs \cup WideInputs
    \cup LetterInputs \cup TallInputs

(***************************************************************************)
(* The specification                                                       *)
(***************************************************************************)
\* main, lines 224-289: the table is loaded and a Tokenizer is built over it
\* with the records in the order exprs
Load(in, exprs) ==
    /\ m_rows = in.rows
    /\ m_cols = in.cols
    /\ m_table = [i \in 0..(in.rows - 1) |-> [j \in 0..(in.cols - 1) |-> LoadCell(in.data[i][j])]]
    /\ m_expressions = exprs
    /\ map_ref_cells = EmptyMap
    /\ pc = "run"
    /\ idx = 1
    /\ stack = <<>>
    /\ ret = NoReturn
    /\ diag = 0
    /\ evals = EmptyMap
    /\ divzero = {}
    /\ textop = {}
    /\ prev = [valid |-> FALSE, shown |-> <<>>, cache |-> EmptyMap, blank |-> {}]
    /\ cast_ub = {}

Init == \E in \in Inputs : Load(in, Collect(in.rows, in.cols, in.data, 0))

\* a Tokenizer built by another caller than main: the records in any order
AnyOrderInit ==
  \E in \in Inputs : \E exprs \in Orders(Collect(in.rows, in.cols, in.data, 0)) : Load(in, exprs)

\* Tokenizer::Tokenizer: after the run in the loader's order, another
\* Tokenizer is built over the same table with the records in any order
Construct ==
  /\ pc = "done" /\ ~prev.valid
  /\ \E exprs \in Orders(m_expressions) : m_expressions' = exprs
  /\ prev' = [valid |-> TRUE, shown |-> Shown, cache |-> EmptyMap, blank |-> {}]
  /\ map_ref_cells' = EmptyMap
  /\ pc' = "run"
  /\ idx' = 1
  /\ diag' = 0
  /\ evals' = EmptyMap
  /\ divzero' = {}
  /\ textop' = {}
  /\ UNCHANGED <<fixed, stack, ret>>

\* the messages a failed formula ends with
ErrorCodes ==
  {E_UNEXP_SYMBOL, E_UNEXP_SYMB, E_INVALID_REF, E_CROSS_REF, E_WRONG_REF, E_UNEXP_EXPR,
   E_INFINITE, E_UNKNOWN_OP}

\* the formula of the cell failed in the run that has ended
Failed(coords) ==
  LET scell == get_cell_by_coords(coords)
  IN /\ scell \in DOMAIN map_ref_cells
     /\ \/ is_incomplete(map_ref_cells[scell])
        \/ map_ref_cells[scell].type = "T_STRING" /\ map_ref_cells[scell].s_value \in ErrorCodes

\* the records without the one of the cell coords, in the same order
RECURSIVE Without(_, _)
Without(exprs, coords) ==
  IF exprs = <<>> THEN <<>>
  ELSE (IF exprs[1].m_coords = coords THEN <<>> ELSE <<exprs[1]>>)
         \o Without(SubSeq(exprs, 2, Len(exprs)), coords)

\* main is run again on the input with the datum of one cell, whose formula
\* failed, left empty
Blank ==
  /\ pc = "done"
  /\ \E k \in 1..Len(m_expressions) :
       LET coords == m_expressions[k].m_coords
       IN /\ Failed(coords)
          /\ m_table' = [m_table EXCEPT ![coords[1]][coords[2]] = <<>>]
          /\ m_expressions' = Without(m_expressions, coords)
          /\ prev' = [valid |-> FALSE, shown |-> <<>>, cache |-> map_ref_cells,
                      blank |-> {coords}]
  /\ map_ref_cells' = EmptyMap
  /\ pc' = "run"
  /\ idx' = 1
  /\ diag' = 0
  /\ evals' = EmptyMap
  /\ divzero' = {}
  /\ textop' = {}
  /\ UNCHANGED <<m_rows, m_cols, cast_ub, stack, ret>>

\* the steps of one run
Step ==
  \/ RunIter
  \/ RunCommit
  \/ RunReturn
  \/ ScanChar
  \/ ExprResume
  \/ ExprReturn
  \/ RefReserve
  \/ RefDispatch
  \/ RefResume
  \/ RefCommit

Next == Step \/ Construct

Spec == Init /\ [][Next]_vars

\* one run, in any order of the records: single-threaded code that is not
\* blocked takes its next step
FairSpec == AnyOrderInit /\ [][Step]_vars /\ WF_vars(Step)

\* a run of main, and runs on the input with a failed formula left out
BlankNext == Step \/ Blank

FrameSpec == Init /\ [][BlankNext]_vars

(***************************************************************************)
(* Properties                                                              *)
(***************************************************************************)
Done == pc = "done"

Cells == (0..(m_rows - 1)) \X (0..(m_cols - 1))

Raw(coords) == m_table[coords[1]][coords[2]]

FormulaCells == {m_expressions[k].m_coords : k \in 1..Len(m_expressions)}

Cached(coords) == get_cell_by_coords(coords) \in DOMAIN map_ref_cells

Entry(coords) == map_ref_cells[get_cell_by_coords(coords)]

\* the cell's formula is a single reference to the cell d
RefersTo(coords, d) == m_cols <= 26 /\ Raw(coords) = <<Chr("=")>> \o get_cell_by_coords(d)

IsSingleRef(coords) == \E d \in Cells : RefersTo(coords, d)

Target(coords) == CHOOSE d \in Cells : RefersTo(coords, d)

\* the cell reached from coords by following n single references, if there is one
RECURSIVE Follow(_, _)
Follow(coords, n) ==
  IF n = 0 THEN {coords}
  ELSE IF IsSingleRef(coords) THEN Follow(Target(coords), n - 1)
  ELSE {}

\* the cell lies on a cycle of single references
OnCycle(coords) == \E n \in 1..Cardinality(Cells) : coords \in Follow(coords, n)

\* C1: when run has returned, every cell on a cycle of formulas that are single
\* references (a self-reference included) holds the Text token #E_CROSS_REF,
\* in whatever order the driver took the records
C1_CycleIsCrossRef ==
  Done => \A c \in Cells :
            OnCycle(c) => Cached(c) /\ Entry(c) = TokenString(E_CROSS_REF)

\* a run in another order than the loader's has ended, it entered a cycle of
\* two or more cells at a cell the loader's order would not have entered it at
C1_Witness ==
  /\ Done /\ prev.valid
  /\ \E c \in Cells :
       /\ OnCycle(c) /\ Target(c) # c
       /\ m_expressions[1].m_coords = c
       /\ \E k \in 2..Len(m_expressions) :
            /\ OnCycle(m_expressions[k].m_coords)
            /\ m_expressions[k].m_coords[2] < c[2]
       /\ Entry(c) = TokenString(E_CROSS_REF)

Activations(fn) == {i \in 1..Len(stack) : stack[i].fn = fn}

\* the recursion is no deeper than the table has cells, and a call of
\* parse_reference is for a cell without a cache entry
C2_DepthBound ==
  /\ Cardinality(Activations("parse_expr")) <= Cardinality(Cells)
  /\ Cardinality(Activations("parse_reference")) <= Cardinality(Cells)
  /\ \A i \in Activations("parse_reference") :
       stack[i].st = "reserve" => ~RefReserved(stack[i].scell)

\* C2: run returns for every table, and on the way the parse_expr /
\* parse_reference recursion is never deeper than the number of cells, every
\* call of parse_reference reserving a cell that had no cache entry
C2_RunReturns == []C2_DepthBound /\ (~Done ~> Done)

\* a chain of references through every cell of a table of three or more cells
\* is being followed: one parse_expr per cell is active
C2_Witness ==
  /\ Cardinality(Cells) >= 3
  /\ Cardinality(Activations("parse_expr")) = Cardinality(Cells)

\* C3: when run has returned without a diagnostic on cerr, every formula cell
\* has a cache entry holding a Number or a Text token, never a pending one
C3_FormulasResolved ==
  Done /\ diag = 0 =>
    \A c \in FormulaCells : Cached(c) /\ Entry(c).type \in {"T_NUMBER", "T_STRING"}

\* the cells whose resolution is in progress: the record run is working on
\* and the cells of the active parse_reference calls that have reserved theirs
InProgress ==
  (IF pc = "try" THEN {RunCell} ELSE {})
    \cup {stack[i].scell : i \in {k \in Activations("parse_reference") : stack[k].st # "reserve"}}

\* C4: a cell whose cache entry is pending is being resolved on the call stack
C4_PendingIsInProgress ==
  \A scell \in DOMAIN map_ref_cells :
    is_incomplete(map_ref_cells[scell]) => scell \in InProgress

\* C5: in one run the evaluation of a cell is started at most once
C5_EvaluatedOnce == \A scell \in DOMAIN evals : evals[scell] <= 1

\* run has returned for A1 = "=B1", B1 = "=C1", C1 = "7" in the loader's order:
\* B1 was resolved for A1, its own record was skipped, each cell evaluated once
C5_Witness ==
  /\ Done /\ ~prev.valid
  /\ m_rows = 1 /\ m_cols = 3
  /\ Raw(<<0, 0>>) = Str(<<"=", "B", "1">>)
  /\ Raw(<<0, 1>>) = Str(<<"=", "C", "1">>)
  /\ Raw(<<0, 2>>) = Str(<<"7">>)
  /\ \A c \in Cells : evals[get_cell_by_coords(c)] = 1
  /\ Entry(<<0, 1>>) = TokenNumber(7)

\* C6: the formula cells display the same whatever the order of the records
C6_OrderIndependent == Done /\ prev.valid => Shown = prev.shown

\* the raw text of the cell is none of formula, number, string literal, empty
IsInvalid(coords) ==
  LET s == Raw(coords)
  IN ~is_expression(s) /\ ~is_number(s) /\ ~is_string_literal(s) /\ s # <<>>

\* C7: every formula that is a reference to a cell of invalid content ends
\* with the Text token of the wrong-reference error
C7_WrongRefForAll ==
  Done => \A c \in FormulaCells :
            (IsSingleRef(c) /\ IsInvalid(Target(c))) =>
               Cached(c) /\ Entry(c) = TokenString(E_WRONG_REF)

\* ---- arithmetic, stated apart from the machine ----
\* the value of a string of decimal digits
RECURSIVE Decimal(_)
Decimal(t) ==
  IF Len(t) = 0 THEN 0
  ELSE 10 * Decimal(SubSeq(t, 1, Len(t) - 1)) + (t[Len(t)] - Chr("0"))

\* a literal of at most nine digits, which is within the range of int
IsLiteral(t) == is_number(t) /\ Len(t) <= 9

\* the number an operand text denotes: a literal, or a reference to a cell
\* holding a literal; ok is FALSE for any other text
OperandValue(t) ==
  IF IsLiteral(t) THEN [ok |-> TRUE, v |-> Decimal(t)]
  ELSE IF m_cols <= 26 /\ \E d \in Cells : t = get_cell_by_coords(d) /\ IsLiteral(Raw(d))
       THEN [ok |-> TRUE,
             v |-> Decimal(Raw(CHOOSE d \in Cells : t = get_cell_by_coords(d)))]
  ELSE [ok |-> FALSE, v |-> 0]

\* a / b rounded toward zero, b # 0
Quotient(a, b) == Sign(a) * Sign(b) * (Abs(a) \div Abs(b))

\* a op b on integers; undefined for a zero divisor
Apply(a, o, b) ==
  IF ~a.ok \/ ~b.ok THEN [ok |-> FALSE, v |-> 0]
  ELSE IF o = Chr("+") THEN [ok |-> TRUE, v |-> a.v + b.v]
  ELSE IF o = Chr("-") THEN [ok |-> TRUE, v |-> a.v - b.v]
  ELSE IF o = Chr("*") THEN [ok |-> TRUE, v |-> a.v * b.v]
  ELSE IF b.v = 0 THEN [ok |-> FALSE, v |-> 0]
  ELSE [ok |-> TRUE, v |-> Quotient(a.v, b.v)]

OperatorAt(t) == {i \in 1..Len(t) : t[i] \in {Chr("+"), Chr("-"), Chr("*"), Chr("/")}}

LastOperator(t) == CHOOSE i \in OperatorAt(t) : \A j \in OperatorAt(t) : j <= i

\* the left fold ((n1 op1 n2) op2 n3) ... of the text n1 op1 n2 op2 n3 ...
RECURSIVE LeftFold(_)
LeftFold(t) ==
  IF OperatorAt(t) = {} THEN OperandValue(t)
  ELSE LET p == LastOperator(t)
       IN Apply(LeftFold(SubSeq(t, 1, p - 1)), t[p], OperandValue(SubSeq(t, p + 1, Len(t))))

FormulaText(coords) == substr1(Raw(coords))

IsTable(in) ==
  /\ m_rows = in.rows /\ m_cols = in.cols
  /\ \A c \in Cells : Raw(c) = LoadCell(in.data[c[1]][c[2]])

\* the numbers the comment of main expects for the formula cells of its table
ExampleExpected ==
  /\ Entry(<<0, 1>>) = TokenNumber(-4)
  /\ Entry(<<1, 0>>) = TokenNumber(4)
  /\ Entry(<<1, 1>>) = TokenNumber(-16)
  /\ Entry(<<1, 2>>) = TokenNumber(-4)
  /\ Entry(<<2, 1>>) = TokenNumber(1)

\* C8: a formula n1 op1 n2 op2 n3 ... over literals, or over references to
\* cells holding numbers, ends with the Number of the left fold whenever the
\* fold divides by no zero; the table of the comment of main ends as documented
C8_LeftFold ==
  Done =>
    /\ \A c \in FormulaCells :
         LeftFold(FormulaText(c)).ok =>
           Cached(c) /\ Entry(c) = TokenNumber(LeftFold(FormulaText(c)).v)
    /\ IsTable(ExampleInput) => ExampleExpected

\* run has returned for =2+3*4 with the Number 20
C8_Witness ==
  /\ Done
  /\ IsTable(OneRow(<<Str(<<"=", "2", "+", "3", "*", "4">>)>>))
  /\ Entry(<<0, 0>>) = TokenNumber(20)

\* run has returned for a formula over three references to numbers that are
\* combined by a subtraction and a division
C8_WitnessReferences ==
  /\ Done
  /\ IsTable(OneRow(<<Str(<<"7">>), Str(<<"2">>), Str(<<"2">>),
                      Str(<<"=", "A", "1", "-", "B", "1", "/", "C", "1">>)>>))
  /\ Entry(<<0, 3>>) = TokenNumber(2)

\* the tokens the program holds: in the cache, on the operand stacks, in flight
HeldTokens ==
  {map_ref_cells[k] : k \in DOMAIN map_ref_cells}
    \cup UNION {{stack[i].toks[j] : j \in 1..Len(stack[i].toks)} : i \in 1..Len(stack)}
    \cup {stack[i].tok : i \in 1..Len(stack)}
    \cup {ret.tok}

\* C9: every Number token is an integer; a division yields the quotient
\* rounded toward zero, at the step of the division: =7/2 is 3, =7/2+1 is 4,
\* =1-8/2 is -3, =0-7/2 is -3
C9_TruncatedTowardZero ==
  /\ \A tok \in HeldTokens : tok.type = "T_NUMBER" => IsInt(tok.n_value)
  /\ Done =>
       /\ IsTable(OneRow(<<Str(<<"=", "7", "/", "2">>)>>)) => Entry(<<0, 0>>) = TokenNumber(3)
       /\ IsTable(OneRow(<<Str(<<"=", "7", "/", "2", "+", "1">>)>>)) => Entry(<<0, 0>>) = TokenNumber(4)
       /\ IsTable(OneRow(<<Str(<<"=", "1", "-", "8", "/", "2">>)>>)) => Entry(<<0, 0>>) = TokenNumber(-3)
       /\ IsTable(OneRow(<<Str(<<"=", "0", "-", "7", "/", "2">>)>>)) => Entry(<<0, 0>>) = TokenNumber(-3)
       /\ IsTable(OneRow(<<Str(<<"=", "7", "/", "2", "*", "2">>)>>)) => Entry(<<0, 0>>) = TokenNumber(6)

\* run has returned for =1-8/2 with the Number -3
C9_Witness ==
  /\ Done
  /\ IsTable(OneRow(<<Str(<<"=", "1", "-", "8", "/", "2">>)>>))
  /\ Entry(<<0, 0>>) = TokenNumber(-3)

\* C10: a cell whose formula divided by a zero divisor ends with the Text
\* token #E_INFINITE, whatever the dividend
C10_DivisionByZeroFails ==
  Done => \A scell \in divzero : map_ref_cells[scell] = TokenString(E_INFINITE)

\* ---- independence of unrelated cells ----
\* the text t occurs in the text s
Occurs(t, s) == \E i \in 1..(Len(s) - Len(t) + 1) : SubSeq(s, i, i + Len(t) - 1) = t

\* the formula of the cell c names the cell d
Names(c, d) == is_expression(Raw(c)) /\ Occurs(get_cell_by_coords(d), Raw(c))

\* the cells reached from c along at most n references
RECURSIVE Reached(_, _)
Reached(c, n) ==
  IF n = 0 THEN {c}
  ELSE LET R == Reached(c, n - 1)
       IN R \cup {d \in Cells : \E e \in R : Names(e, d)}

\* the cell c references the cell d, directly or through other cells
DependsOn(c, d) == d \in Reached(c, Cardinality(Cells))

\* C11: when a formula failed and main is run on the input with that cell left
\* empty, every formula cell that does not reference the cell, directly or
\* transitively, ends with the token it had in the run with the failed formula;
\* and the run with the failed formula went on to give every record an entry
C11_FailureIsLocal ==
  /\ Done => \A c \in FormulaCells : Cached(c)
  /\ Done /\ prev.blank # {} =>
       \A c \in FormulaCells :
         (\A f \in prev.blank : ~DependsOn(c, f)) =>
            Entry(c) = prev.cache[get_cell_by_coords(c)]

\* ---- references outside the table ----
\* the text is a column letter of the table followed by a row number
IsReference(t) ==
  /\ Len(t) >= 2 /\ is_ref_candidate(t[1])
  /\ IsLiteral(SubSeq(t, 2, Len(t)))

RowNumber(t) == Decimal(SubSeq(t, 2, Len(t)))

\* the formula of the cell is one reference whose row number is not in 1..m_rows
RefersOutside(c) ==
  IsReference(FormulaText(c)) /\ RowNumber(FormulaText(c)) \notin 1..m_rows

\* C12: a formula that is a reference with a row number below 1 or above the
\* number of rows ends with the Text token #E_INVALID_REF, and when all formulas
\* of the table are such references no other cell gets a cache entry
C12_RowOutsideIsInvalidRef ==
  Done =>
    /\ \A c \in FormulaCells :
         RefersOutside(c) => Cached(c) /\ Entry(c) = TokenString(E_INVALID_REF)
    /\ (\A c \in FormulaCells : RefersOutside(c)) =>
         DOMAIN map_ref_cells = {get_cell_by_coords(c) : c \in FormulaCells}

\* ---- formulas of a single token ----
\* the token a cell that holds no formula stands for
ContentToken(d) ==
  IF IsLiteral(Raw(d)) THEN TokenNumber(Decimal(Raw(d)))
  ELSE IF is_string_literal(Raw(d)) THEN TokenString(substr1(Raw(d)))
  ELSE TokenString(<<>>)

HasContentToken(d) == IsLiteral(Raw(d)) \/ is_string_literal(Raw(d)) \/ Raw(d) = <<>>

\* C13: a formula that is one literal ends with the Number of the literal; a
\* formula that is one reference ends with the token of the referenced cell:
\* the Number of a number, the text of a string literal without its quote, the
\* empty Text of an empty cell, the final token of a formula cell
C13_SingleTokenIsResult ==
  Done => \A c \in FormulaCells :
    /\ IsLiteral(FormulaText(c)) => Entry(c) = TokenNumber(Decimal(FormulaText(c)))
    /\ IsSingleRef(c) =>
         /\ HasContentToken(Target(c)) => Entry(c) = ContentToken(Target(c))
         /\ is_expression(Raw(Target(c))) =>
              Cached(Target(c)) /\ Entry(c) = Entry(Target(c))

\* ---- operators on Text tokens ----
\* C14: a cell whose formula applied an operator to two operands of which at
\* least one is a Text token ends with the Text token #E_UNEXP_EXPR
C14_TextOperandFails ==
  Done => \A scell \in textop : map_ref_cells[scell] = TokenString(E_UNEXP_EXPR)

\* run has returned for D1 = "=2*B1" with B1 empty: D1 multiplied by a Text
\* token and holds #E_UNEXP_EXPR
C14_Witness ==
  /\ Done
  /\ m_cols = 4 /\ Raw(<<0, 3>>) = Str(<<"=", "2", "*", "B", "1">>)
  /\ get_cell_by_coords(<<0, 3>>) \in textop
  /\ Entry(<<0, 3>>) = TokenString(E_UNEXP_EXPR)

\* ---- the lifecycle of the cache entries ----
Resolved(tok) == tok.type \in {"T_NUMBER", "T_STRING"}

\* a step of a run keeps every entry, leaves a resolved entry as it is, and
\* inserts entries as pending ones only
CacheStep ==
  /\ \A k \in DOMAIN map_ref_cells :
       /\ k \in DOMAIN map_ref_cells'
       /\ Resolved(map_ref_cells[k]) => map_ref_cells'[k] = map_ref_cells[k]
  /\ \A k \in DOMAIN map_ref_cells' \ DOMAIN map_ref_cells : is_incomplete(map_ref_cells'[k])

\* the evaluation of a cell has started only if the cell has an entry
ReservedFirst == \A k \in DOMAIN evals : k \in DOMAIN map_ref_cells

\* C15: during a run entries are inserted as pending before the evaluation of
\* their cell starts, are never removed, and are never overwritten once they
\* hold a Number or a Text token
C15_Lifecycle == []ReservedFirst /\ [][pc # "done" => CacheStep]_vars

\* a run is working on a cell while the cache holds a resolved entry and a
\* pending one
C15_Witness ==
  /\ pc = "try"
  /\ \E k \in DOMAIN map_ref_cells : Resolved(map_ref_cells[k])
  /\ \E k \in DOMAIN map_ref_cells : is_incomplete(map_ref_cells[k])
  /\ stack # <<>> /\ Top.fn = "parse_reference" /\ Top.st = "commit"

\* ---- the call protocol of parse_reference ----
\* C16: parse_reference is entered only for cells without a cache entry, and
\* its logic_error "Internal error: parse_reference()" is never thrown, in
\* whatever order the driver takes the records
C16_NoInternalError ==
  /\ ~(ret.kind = "logic_error" /\ ret.what = E_INTERNAL)
  /\ diag > 0 => \E c \in Cells : is_number(Raw(c)) /\ stoi(Raw(c)) < 0
  /\ \A i \in 1..Len(stack) :
       stack[i].fn = "parse_reference" /\ stack[i].st = "reserve"
         => stack[i].scell \notin DOMAIN map_ref_cells

\* a run in another order than the loader's has returned for A1 = "=C1",
\* B1 = "=C1", C1 = "7": C1 was resolved once, for the first of the two
\* references, and the second took it from the cache
C16_Witness ==
  /\ Done /\ prev.valid /\ diag = 0
  /\ m_rows = 1 /\ m_cols = 3
  /\ Raw(<<0, 0>>) = Str(<<"=", "C", "1">>)
  /\ Raw(<<0, 1>>) = Str(<<"=", "C", "1">>)
  /\ Raw(<<0, 2>>) = Str(<<"7">>)
  /\ m_expressions[1].m_coords = <<0, 1>>
  /\ evals[get_cell_by_coords(<<0, 2>>)] = 1
  /\ Entry(<<0, 0>>) = TokenNumber(7) /\ Entry(<<0, 1>>) = TokenNumber(7)

\* ---- the operand stack of parse_expr ----
\* the activations of parse_expr that are between two iterations of the scan
Scanning == {i \in Activations("parse_expr") : stack[i].st = "scan"}

\* C17: the operand stack of parse_expr never holds more than two tokens, and
\* between two iterations of the scan it does not hold two tokens together
\* with a pending operator
C17_StackAtMostTwo ==
  /\ \A i \in Activations("parse_expr") : Len(stack[i].toks) <= 2
  /\ \A i \in Scanning : ~(Len(stack[i].toks) = 2 /\ stack[i].op # "OP_NONE")

\* the scan of the topmost parse_expr is over with an operator that was not
\* applied or with more than one operand on the stack
EndsUnfinished ==
  /\ stack # <<>> /\ ret.kind = "none"
  /\ Top.fn = "parse_expr" /\ Top.st = "scan" /\ Top.it > Len(Top.str)
  /\ Top.toks # <<>>
  /\ Top.op # "OP_NONE" \/ Len(Top.toks) > 1

\* C18: when the scan ends with an operator that was not applied or with more
\* than one operand on the stack, parse_expr returns the operand pushed last
C18_ResultIsLastPushed ==
  EndsUnfinished => parse_expr_result(Top) = Top.toks[Len(Top.toks)]

\* ---- tables of more than 26 columns ----
\* the letter that stands for the column col: A..Z, then a..z
ColumnLetter(col) == IF col < Letters THEN Chr("A") + col ELSE Chr("a") + (col - Letters)

\* C19: in a table of 27 to 52 columns the letter of every column is accepted
\* as the start of a reference and addresses that column, the identity of a
\* cell starts with the letter of its column, and so =A1 ends with the token
\* of the first column and =a1 with the token of column 26
C19_LettersDenoteColumns ==
  m_cols > Letters /\ m_cols <= 2 * Letters =>
    /\ \A col \in 0..(m_cols - 1) :
         /\ is_ref_candidate(ColumnLetter(col))
         /\ get_col_by_char(ColumnLetter(col)) = col
         /\ get_cell_by_coords(<<0, col>>)[1] = ColumnLetter(col)
    /\ Done =>
         \A c \in FormulaCells :
           /\ FormulaText(c) = Str(<<"A", "1">>) => Entry(c) = ContentToken(<<0, 0>>)
           /\ FormulaText(c) = Str(<<"a", "1">>) => Entry(c) = ContentToken(<<0, Letters>>)

\* the three parts of C19 taken apart, to tell which of them fail
C19_LettersAccepted ==
  m_cols > Letters /\ m_cols <= 2 * Letters =>
    \A col \in 0..(m_cols - 1) : is_ref_candidate(ColumnLetter(col))

C19_IdentityLetter ==
  m_cols > Letters /\ m_cols <= 2 * Letters =>
    \A col \in 0..(m_cols - 1) : get_cell_by_coords(<<0, col>>)[1] = ColumnLetter(col)

C19_References ==
  m_cols > Letters /\ m_cols <= 2 * Letters /\ Done =>
    \A c \in FormulaCells :
      /\ FormulaText(c) = Str(<<"A", "1">>) => Entry(c) = ContentToken(<<0, 0>>)
      /\ FormulaText(c) = Str(<<"a", "1">>) => Entry(c) = ContentToken(<<0, Letters>>)

\* ---- column letters without a row number ----
\* the text starts with a column letter of the table that no digit follows
LetterWithoutDigit(t) ==
  /\ t # <<>> /\ is_ref_candidate(t[1])
  /\ Len(t) = 1 \/ ~isdigit(t[2])

\* C20: a formula that starts with a column letter no digit follows ends with
\* the Text token #E_INVALID_REF, and when it is the only formula of the table
\* no other cell gets a cache entry
C20_LetterNeedsDigit ==
  Done => \A c \in FormulaCells :
    LetterWithoutDigit(FormulaText(c)) =>
      /\ Cached(c) /\ Entry(c) = TokenString(E_INVALID_REF)
      /\ FormulaCells = {c} => DOMAIN map_ref_cells = {get_cell_by_coords(c)}

====
